---- MODULE Spec2Model ----
(***************************************************************************)
(* State-machine model of the quotation engine in src/bot/rates.py         *)
(* (class BinanceRates).  Engine fields are variables; get_price is one    *)
(* atomic step (it suspends on at most one catalog request and two ticker  *)
(* requests, each drawn from the upstream response sets); quote() is a     *)
(* sequence of such steps, one per get_price/_eur_to_pln call site, with   *)
(* pc naming the source line of the call about to run.                     *)
(* Prices are exact rationals <<numerator, denominator>>; None is <<>>.    *)
(***************************************************************************)
EXTENDS Integers, Sequences, FiniteSets, TLC

VARIABLES
    symbols,             \* BinanceRates._symbols: set of listed symbols
    exchange_info_ts,    \* BinanceRates._exchange_info_ts
    price_cache,         \* BinanceRates._price_cache: (base,quote) -> [ts, val]
    clock,               \* time.time()
    pc,                  \* "idle", or the line of the call site quote() is at
    frame,               \* locals of the running quote() invocation
    result,              \* what the last finished call returned or raised
    reqs,                \* upstream requests issued by the latest step
    stats,               \* the current/last invocation and its request summary
    earlier,             \* summary of the quote() before it, if for the same
                         \* pair and started less than cache_ttl before it
    reverse,             \* summary of the quote() before it, if for the
                         \* reversed pair and started less than cache_ttl before
    catalog_fetched_at,  \* times of the two latest catalog requests
    calls,               \* invocations started so far
    limit,               \* invocations this run makes at most
    asked,               \* the two tickers this run's callers ask about
    state,               \* ConversationHandler state of the user's chat
    user_data,           \* context.user_data of the user
    orders,              \* rows of the orders table, by id
    outbox,              \* messages the latest handler sent
    keyboards,           \* the inline keyboards on display in the chat
    quote_calls,         \* rates.quote() invocations made by the handlers
    starts,              \* /start commands handled so far
    rates_backend,       \* class of application.bot_data["rates"]
    admin_data,          \* context.user_data of the administrator
    manual_tiers,        \* fee tiers of the manual rate table
    manual_fee,          \* the fee select_tier is asked for
    manual_tier          \* the tier select_tier answered, None before the call

engine == <<symbols, exchange_info_ts, price_cache, clock, pc, frame, result,
            reqs, stats, earlier, reverse, catalog_fetched_at, calls, limit, asked>>
tiering == <<manual_tiers, manual_fee, manual_tier>>
session == <<state, user_data, orders, outbox, keyboards, quote_calls, starts,
             rates_backend, admin_data, tiering>>
vars == <<engine, session>>

-----------------------------------------------------------------------------
(* Bounds of the model *)
MaxCalls == 1
MaxSeq == 2
MaxStarts == 2
MaxQuotes == 3

(* Program constants *)
cache_ttl == 10
RefreshInterval == 3600

None == <<>>

-----------------------------------------------------------------------------
(* Rational arithmetic standing for Python floats *)
Abs(n) == IF n < 0 THEN -n ELSE n

RECURSIVE GCD(_, _)
GCD(a, b) == IF b = 0 THEN a ELSE GCD(b, a % b)

Rat(n, d) ==
    LET g == GCD(Abs(n), Abs(d))
        s == IF d < 0 THEN -1 ELSE 1
    IN  <<(s * n) \div g, (s * d) \div g>>

One == Rat(1, 1)
Zero == Rat(0, 1)
Mul(x, y) == Rat(x[1] * y[1], x[2] * y[2])
InvForgotten(x) == x
Inv(x) == Rat(x[2], x[1])
Truthy(x) == x # None /\ x # Zero
Positive(x) == x # None /\ x[1] > 0

-----------------------------------------------------------------------------
(* Inputs and upstream responses *)
Pairs ==
    {<<"sol", "SOL">>, <<"USDT", "USDC">>, <<"sol", "ETH">>, <<"ETH", "USDT">>,
     <<"SOL", "TRY">>, <<"USDT", "TRY">>, <<"ETH", "PLN">>, <<"USDC", "PLN">>,
     <<"TRY", "PLN">>, <<"XXX", "YYY">>, <<"usdt", "Usdc">>}
SeqPairs == {<<"sol", "SOL">>, <<"USDT", "USDC">>, <<"ETH", "USDT">>, <<"XXX", "YYY">>}
(* pairs whose market price moves between two non-zero values *)
MovingPairs == {<<"SOL", "USDT">>}

Prices ==
    IF asked \in MovingPairs THEN {Rat(2, 1), Rat(3, 1)} ELSE {Rat(0, 1), Rat(2, 1)}
FxPrices == {Rat(0, 1), Rat(5, 1)}

TickerResponses ==
    {[raises |-> TRUE, status_code |-> 0, price |-> None],
     [raises |-> FALSE, status_code |-> 429, price |-> None],
     [raises |-> FALSE, status_code |-> 200, price |-> None]}
    \cup {[raises |-> FALSE, status_code |-> 200, price |-> p] : p \in Prices}

FxResponses ==
    {[raises |-> TRUE, status_code |-> 0, price |-> None],
     [raises |-> FALSE, status_code |-> 500, price |-> None]}
    \cup {[raises |-> FALSE, status_code |-> 200, price |-> p] : p \in FxPrices}

Listing ==
    {[symbol |-> <<"SOL", "USDC">>, status |-> "TRADING"],
     [symbol |-> <<"ETH", "USDC">>, status |-> "TRADING"],
     [symbol |-> <<"USDC", "TRY">>, status |-> "TRADING"],
     [symbol |-> <<"EUR", "USDC">>, status |-> "TRADING"],
     [symbol |-> <<"SOL", "ETH">>, status |-> "BREAK"]}

CatalogResponses ==
    {[raises |-> TRUE, status_code |-> 0, listing |-> {}],
     [raises |-> FALSE, status_code |-> 403, listing |-> {}],
     [raises |-> FALSE, status_code |-> 200, listing |-> {}],
     [raises |-> FALSE, status_code |-> 200, listing |-> Listing]}

-----------------------------------------------------------------------------
(* str.upper() on the tickers the model feeds in *)
Upper(s) ==
    CASE s = "sol" -> "SOL"
      [] s = "usdt" -> "USDT"
      [] s = "Usdc" -> "USDC"
      [] OTHER -> s

(* BinanceRates._norm *)
NormUpperOnly(asset) == Upper(asset)
NormAliasSwapped(asset) ==
    LET a == Upper(asset)
    IN  IF a = "USDT" THEN "USDC" ELSE IF a = "USDC" THEN "USDT" ELSE a
Norm(asset) ==
    LET a == Upper(asset)
    IN  IF a \in {"USDT", "USDC"} THEN "USDC" ELSE a

(* show() inside quote: <<disp>> or <<disp, norm>> for "disp(as norm)" *)
Show(a_disp, a_norm) == IF a_disp # a_norm THEN <<a_disp, a_norm>> ELSE <<a_disp>>

Req(kind, sym, ok) == [kind |-> kind, sym |-> sym, ok |-> ok]

NoStats == [op |-> "none", from |-> "", to |-> "",
            catalog |-> 0, legs |-> 0, failed |-> {}, retried |-> FALSE,
            dropped |-> FALSE, obs |-> {}]
StartOf(op, from, to) == [NoStats EXCEPT !.op = op, !.from = from, !.to = to]
NoEarlier == [requests |-> -1, direct |-> FALSE]
NoReverse == [rate |-> None, obs |-> {}]

(* bookkeeping of one upstream request: the step's log and the invocation's *)
(* counters, the ticker symbols that failed, and whether one was asked again *)
LogReq(st, kind, sym, ok) ==
    [st EXCEPT !.reqs = Append(@, Req(kind, sym, ok)),
               !.stats = [@ EXCEPT
                    !.catalog = @ + (IF kind = "catalog" THEN 1 ELSE 0),
                    !.legs = @ + (IF kind = "catalog" THEN 0 ELSE 1),
                    !.failed = IF kind = "ticker" /\ ~ok THEN @ \cup {sym} ELSE @,
                    !.retried = @ \/ (kind = "ticker" /\ sym \in st.stats.failed)]]

Last2(s) == IF Len(s) > 2 THEN SubSeq(s, Len(s) - 1, Len(s)) ELSE s

(* BinanceRates._refresh_symbols; st is the engine state, resp the reply  *)
(* the exchange would give to this catalog request; stats.dropped records *)
(* that a failed refresh replaced a non-empty symbol set                  *)
RefreshSymbolsKeepStale(st, now, resp) ==
    IF st.symbols # {} /\ (now - st.exchange_info_ts) < RefreshInterval
    THEN st
    ELSE LET ok == ~resp.raises /\ resp.status_code = 200
             syms == {s.symbol : s \in {e \in resp.listing : e.status = "TRADING"}}
         IN  [LogReq(st, "catalog", <<>>, ok) EXCEPT
                        !.symbols = IF ok THEN syms ELSE @,
                        !.exchange_info_ts = now,
                        !.catalog_fetched_at = Last2(Append(@, now)),
                        !.stats.dropped = @ \/ (st.symbols # {} /\ ~ok)]

RefreshSymbols(st, now, resp) ==
    IF st.symbols # {} /\ (now - st.exchange_info_ts) < RefreshInterval
    THEN st
    ELSE LET ok == ~resp.raises /\ resp.status_code = 200
             syms == {s.symbol : s \in {e \in resp.listing : e.status = "TRADING"}}
         IN  [LogReq(st, "catalog", <<>>, ok) EXCEPT
                        !.symbols = IF ok THEN syms ELSE {},
                        !.exchange_info_ts = now,
                        !.catalog_fetched_at = Last2(Append(@, now)),
                        !.stats.dropped = @ \/ (st.symbols # {} /\ ~ok)]

(* The value _fetch_ticker / _eur_to_pln extract from a reply *)
ParseReply(resp) ==
    IF resp.raises \/ resp.status_code # 200 THEN None ELSE resp.price

(* BinanceRates._fetch_ticker *)
Observe(st, symbol, val) ==
    IF val = None THEN st ELSE [st EXCEPT !.stats.obs = @ \cup {<<symbol, val>>}]

FetchTickerZeroOnFailure(st, symbol, resp) ==
    LET val == ParseReply(resp)
    IN  [st |-> Observe(LogReq(st, "ticker", symbol, val # None), symbol, val),
         ret |-> IF val = None THEN Zero ELSE val]

FetchTicker(st, symbol, resp) ==
    LET val == ParseReply(resp)
    IN  [st |-> Observe(LogReq(st, "ticker", symbol, val # None), symbol, val),
         ret |-> val]

(* BinanceRates._eur_to_pln *)
EurToPln(st, resp) ==
    LET val == ParseReply(resp)
    IN  [st |-> Observe(LogReq(st, "fx", <<"EUR", "PLN">>, val # None), <<"EUR", "PLN">>, val),
         ret |-> val]

(* self._price_cache[key] = (now, val), lines 108, 114, 120, 125 *)
CachePutLost(st, key, now, val) == st
CachePut(st, key, now, val) ==
    [st EXCEPT !.price_cache =
        [k \in DOMAIN @ \cup {key} |-> IF k = key THEN [ts |-> now, val |-> val] ELSE @[k]]]

(* get_price, line 128: `return None`, the cache left as it is *)
AbsentCached(st, key, now) == [st |-> CachePut(st, key, now, None), ret |-> None]
Absent(st, key, now) == [st |-> st, ret |-> None]

(* the body of one mode of get_price: direct attempt, then inverse *)
TryDirectInverseOnZero(st, now, key, tryDirect, tryInverse, up) ==
    LET direct == <<key[1], key[2]>>
        inverse == <<key[2], key[1]>>
        d == IF tryDirect THEN FetchTicker(st, direct, up.direct)
                          ELSE [st |-> st, ret |-> None]
    IN  IF tryDirect /\ Truthy(d.ret)
        THEN [st |-> CachePut(d.st, key, now, d.ret), ret |-> d.ret]
        ELSE IF tryInverse
             THEN LET i == FetchTicker(d.st, inverse, up.inverse)
                  IN  IF Truthy(i.ret)
                      THEN [st |-> CachePut(i.st, key, now, Inv(i.ret)), ret |-> Inv(i.ret)]
                      ELSE Absent(i.st, key, now)
             ELSE Absent(d.st, key, now)
TryDirectInverse(st, now, key, tryDirect, tryInverse, up) ==
    LET direct == <<key[1], key[2]>>
        inverse == <<key[2], key[1]>>
        d == IF tryDirect THEN FetchTicker(st, direct, up.direct)
                          ELSE [st |-> st, ret |-> None]
    IN  IF tryDirect /\ d.ret # None
        THEN [st |-> CachePut(d.st, key, now, d.ret), ret |-> d.ret]
        ELSE IF tryInverse
             THEN LET i == FetchTicker(d.st, inverse, up.inverse)
                  IN  IF Truthy(i.ret)
                      THEN [st |-> CachePut(i.st, key, now, Inv(i.ret)), ret |-> Inv(i.ret)]
                      ELSE Absent(i.st, key, now)
             ELSE Absent(d.st, key, now)

(* get_price, lines 95-97: the cache holds an entry for key that is still valid *)
CacheValidAtExpiry(st, key, now) ==
    key \in DOMAIN st.price_cache /\ now - st.price_cache[key].ts <= cache_ttl
CacheValid(st, key, now) ==
    key \in DOMAIN st.price_cache /\ now - st.price_cache[key].ts < cache_ttl

(* get_price, lines 105 and 110: `direct in self._symbols` *)
ListedAlways(st, sym) == TRUE
Listed(st, sym) == sym \in st.symbols

(* BinanceRates.get_price *)
GetPrice(st0, now, base0, quote0, up) ==
    LET base == Upper(base0)
        quote == Upper(quote0)
        key == <<base, quote>>
    IN  IF base = quote
        THEN [st |-> st0, ret |-> One]
        ELSE LET st == RefreshSymbols(st0, now, up.catalog)
             IN  IF CacheValid(st, key, now)
                 THEN [st |-> st, ret |-> st.price_cache[key].val]
                 ELSE IF st.symbols # {}
                      THEN TryDirectInverse(st, now, key,
                                            Listed(st, <<base, quote>>),
                                            Listed(st, <<quote, base>>), up)
                      ELSE TryDirectInverse(st, now, key, TRUE, TRUE, up)

(* The replies get_price(base, quote) consumes in state st: a reply it   *)
(* never asks for is pinned to one value, so that each way upstream can *)
(* answer the requests actually made is enumerated once                 *)
Unasked == [raises |-> TRUE, status_code |-> 0, price |-> None]
UnaskedCatalog == [raises |-> TRUE, status_code |-> 0, listing |-> {}]

Asks(st, now, base, quote, up, kind, sym) ==
    LET r == GetPrice([st EXCEPT !.reqs = <<>>], now, base, quote, up)
    IN  \E n \in 1..Len(r.st.reqs) : r.st.reqs[n].kind = kind /\ r.st.reqs[n].sym = sym

Replies(st, now, base, quote) ==
    LET d == <<Upper(base), Upper(quote)>>
        i == <<Upper(quote), Upper(base)>>
        U(c, x, y) == [catalog |-> c, direct |-> x, inverse |-> y]
        cs == IF Asks(st, now, base, quote, U(UnaskedCatalog, Unasked, Unasked), "catalog", <<>>)
              THEN CatalogResponses ELSE {UnaskedCatalog}
        ds(c) == IF Asks(st, now, base, quote, U(c, Unasked, Unasked), "ticker", d)
                 THEN TickerResponses ELSE {Unasked}
        is(c, x) == IF Asks(st, now, base, quote, U(c, x, Unasked), "ticker", i)
                    THEN TickerResponses ELSE {Unasked}
    IN  UNION {UNION {{U(c, x, y) : y \in is(c, x)} : x \in ds(c)} : c \in cs}

-----------------------------------------------------------------------------
Eng == [symbols |-> symbols, exchange_info_ts |-> exchange_info_ts,
        price_cache |-> price_cache, reqs |-> <<>>, stats |-> stats,
        catalog_fetched_at |-> catalog_fetched_at]

SetEng(st) ==
    /\ symbols' = st.symbols
    /\ exchange_info_ts' = st.exchange_info_ts
    /\ price_cache' = st.price_cache
    /\ reqs' = st.reqs
    /\ stats' = st.stats
    /\ catalog_fetched_at' = st.catalog_fetched_at

NoFrame == [f_disp |-> "", t_disp |-> "", f_usdc |-> None, usdc_eur |-> None,
            eur_pln |-> None, usdc_try |-> None]

NoResult == [kind |-> "none", rate |-> None, path |-> <<>>, msg |-> ""]
RateQuote(rate, path) == [kind |-> "quote", rate |-> rate, path |-> path, msg |-> ""]
ValueError(msg) == [kind |-> "error", rate |-> None, path |-> <<>>, msg |-> msg]
PriceResult(val) == [kind |-> "price", rate |-> val, path |-> <<>>, msg |-> ""]

(* BinanceRates.__init__, lines 19-24 *)
InitEngine ==
    /\ symbols = {}
    /\ exchange_info_ts = 0
    /\ price_cache = <<>>
    /\ clock = 0
    /\ pc = "idle"
    /\ frame = NoFrame
    /\ result = NoResult
    /\ reqs = <<>>
    /\ stats = NoStats
    /\ earlier = NoEarlier
    /\ reverse = NoReverse
    /\ catalog_fetched_at = <<>>
    /\ calls = 0

-----------------------------------------------------------------------------
(* Asset classes of quote(), lines 168-169 *)
crypto == {"USDC", "SOL", "ETH"}
fiat == {"TRY", "PLN"}

F == Norm(frame.f_disp)
T == Norm(frame.t_disp)
FShow == Show(frame.f_disp, F)
TShow == Show(frame.t_disp, T)

Return(res) ==
    /\ result' = res
    /\ pc' = "idle"
    /\ frame' = NoFrame

Goto(label, fr) ==
    /\ pc' = label
    /\ frame' = fr
    /\ result' = result

(* get_price(b, q) if skip is false, else the literal 1.0 (no call) *)
Leg(skip, b, q, up) ==
    IF skip THEN [st |-> Eng, ret |-> One] ELSE GetPrice(Eng, clock, b, q, up)

(* quote(), lines 148-161: entry, normalisation and the f == t shortcut *)
QuoteCall(from_asset, to_asset, gap) ==
    /\ pc = "idle"
    /\ calls < limit
    /\ calls' = calls + 1
    /\ clock' = clock + gap
    /\ LET f_disp == Upper(from_asset)
           t_disp == Upper(to_asset)
           f == Norm(f_disp)
           t == Norm(t_disp)
       IN  IF f = t
           THEN /\ result' = RateQuote(One, <<Show(f_disp, f), Show(t_disp, t)>>)
                /\ pc' = "idle"
                /\ frame' = NoFrame
           ELSE /\ result' = NoResult
                /\ pc' = "L164"
                /\ frame' = [NoFrame EXCEPT !.f_disp = f_disp, !.t_disp = t_disp]
    /\ reqs' = <<>>
    /\ stats' = StartOf("quote", from_asset, to_asset)
    /\ earlier' = IF stats.op = "quote" /\ stats.from = from_asset /\ stats.to = to_asset
                      /\ gap < cache_ttl
                   THEN [requests |-> stats.catalog + stats.legs,
                         direct |-> result.kind = "quote" /\ Len(result.path) = 2
                                    /\ stats.legs > 0]
                   ELSE NoEarlier
    /\ reverse' = IF stats.op = "quote" /\ stats.from = to_asset /\ stats.to = from_asset
                      /\ from_asset # to_asset /\ gap < cache_ttl
                      /\ result.kind = "quote" /\ Len(result.path) = 2
                   THEN [rate |-> result.rate, obs |-> stats.obs]
                   ELSE NoReverse
    /\ UNCHANGED <<symbols, exchange_info_ts, price_cache,
                   catalog_fetched_at, limit, asked, session>>

(* quote(), line 165: "if direct is not None" *)
HasDirectZeroAbsent(direct) == Truthy(direct)
HasDirect(direct) == direct # None

(* quote(), lines 172, 180, 185, 191, 204, 205, 215, 235: the call site the *)
(* asset classes send the request to, or "raise" for line 235              *)
RouteUnknownAsCrypto(f, t, f_disp, t_disp) ==
    IF (f \in crypto /\ t \in crypto) \/ (f_disp \notin fiat /\ t_disp \notin fiat)
    THEN "L173"
    ELSE IF f \in crypto /\ t_disp \in fiat
         THEN "L181"
         ELSE IF f_disp \in fiat /\ t \in crypto
              THEN (IF f_disp = "TRY" THEN "L206" ELSE "L216")
              ELSE "raise"

RouteAnyToFiat(f, t, f_disp, t_disp) ==
    IF f \in crypto /\ t \in crypto
    THEN "L173"
    ELSE IF t_disp \in fiat
         THEN "L181"
         ELSE IF f_disp \in fiat /\ t \in crypto
              THEN (IF f_disp = "TRY" THEN "L206" ELSE "L216")
              ELSE "raise"

Route(f, t, f_disp, t_disp) ==
    IF f \in crypto /\ t \in crypto
    THEN "L173"
    ELSE IF f \in crypto /\ t_disp \in fiat
         THEN "L181"
         ELSE IF f_disp \in fiat /\ t \in crypto
              THEN (IF f_disp = "TRY" THEN "L206" ELSE "L216")
              ELSE "raise"

(* quote(), lines 164-170 and the dispatch to the first bridge call site *)
Step164(up) ==
    /\ pc = "L164"
    /\ LET r == GetPrice(Eng, clock, F, T, up)
           to == Route(F, T, frame.f_disp, frame.t_disp)
       IN  /\ SetEng(r.st)
           /\ IF HasDirect(r.ret)
              THEN Return(RateQuote(r.ret, <<FShow, TShow>>))
              ELSE IF to = "raise"
                   THEN Return(ValueError("Unsupported conversion"))
                   ELSE Goto(to, frame)
    /\ UNCHANGED <<clock, earlier, reverse, calls, limit, asked, session>>

(* quote(), line 173 *)
Step173(up) ==
    /\ pc = "L173"
    /\ LET r == Leg(F = "USDC", F, "USDC", up)
       IN  /\ SetEng(r.st)
           /\ Goto("L174", [frame EXCEPT !.f_usdc = r.ret])
    /\ UNCHANGED <<clock, earlier, reverse, calls, limit, asked, session>>

(* quote(), lines 174-177 *)
Step174(up) ==
    /\ pc = "L174"
    /\ LET r == Leg(T = "USDC", "USDC", T, up)
       IN  /\ SetEng(r.st)
           /\ IF frame.f_usdc = None \/ r.ret = None
              THEN Return(ValueError("No route for crypto pair"))
              ELSE Return(RateQuote(Mul(frame.f_usdc, r.ret), <<FShow, <<"USDC">>, TShow>>))
    /\ UNCHANGED <<clock, earlier, reverse, calls, limit, asked, session>>

(* quote(), lines 181-185, 191 *)
Step181(up) ==
    /\ pc = "L181"
    /\ LET r == Leg(F = "USDC", F, "USDC", up)
       IN  /\ SetEng(r.st)
           /\ IF r.ret = None
              THEN Return(ValueError("No USDC route for crypto"))
              ELSE Goto(IF frame.t_disp = "TRY" THEN "L186" ELSE "L192",
                        [frame EXCEPT !.f_usdc = r.ret])
    /\ UNCHANGED <<clock, earlier, reverse, calls, limit, asked, session>>

(* quote(), lines 186-189 *)
Step186(up) ==
    /\ pc = "L186"
    /\ LET r == GetPrice(Eng, clock, "USDC", "TRY", up)
       IN  /\ SetEng(r.st)
           /\ IF r.ret = None
              THEN Return(ValueError("USDCTRY not available"))
              ELSE Return(RateQuote(Mul(frame.f_usdc, r.ret), <<FShow, <<"USDC">>, <<"TRY">>>>))
    /\ UNCHANGED <<clock, earlier, reverse, calls, limit, asked, session>>

(* quote(), lines 192-193 *)
Step192(up) ==
    /\ pc = "L192"
    /\ LET r == GetPrice(Eng, clock, "USDC", "EUR", up)
       IN  /\ SetEng(r.st)
           /\ Goto(IF r.ret = None THEN "L195" ELSE "L198", [frame EXCEPT !.usdc_eur = r.ret])
    /\ UNCHANGED <<clock, earlier, reverse, calls, limit, asked, session>>

(* quote(), lines 195-197 *)
Step195(up) ==
    /\ pc = "L195"
    /\ LET r == GetPrice(Eng, clock, "EUR", "USDC", up)
       IN  /\ SetEng(r.st)
           /\ Goto("L198", [frame EXCEPT !.usdc_eur = IF Truthy(r.ret) THEN Inv(r.ret) ELSE None])
    /\ UNCHANGED <<clock, earlier, reverse, calls, limit, asked, session>>

(* quote(), lines 198-201 *)
Step198(resp) ==
    /\ pc = "L198"
    /\ LET r == EurToPln(Eng, resp)
       IN  /\ SetEng(r.st)
           /\ IF frame.usdc_eur = None \/ r.ret = None
              THEN Return(ValueError("PLN route not available (USDC/EUR or EUR/PLN)"))
              ELSE Return(RateQuote(Mul(frame.f_usdc, Mul(frame.usdc_eur, r.ret)),
                                    <<FShow, <<"USDC">>, <<"EUR">>, <<"PLN">>>>))
    /\ UNCHANGED <<clock, earlier, reverse, calls, limit, asked, session>>

(* quote(), lines 206-209 *)
Step206(up) ==
    /\ pc = "L206"
    /\ LET r == GetPrice(Eng, clock, "USDC", "TRY", up)
       IN  /\ SetEng(r.st)
           /\ IF r.ret = None \/ r.ret = Zero
              THEN Return(ValueError("USDCTRY not available"))
              ELSE Goto("L210", [frame EXCEPT !.usdc_try = r.ret])
    /\ UNCHANGED <<clock, earlier, reverse, calls, limit, asked, session>>

(* quote(), lines 209-213 *)
Step210(up) ==
    /\ pc = "L210"
    /\ LET r == Leg(T = "USDC", "USDC", T, up)
           try_usdc == Inv(frame.usdc_try)
       IN  /\ SetEng(r.st)
           /\ IF r.ret = None
              THEN Return(ValueError("No USDC route for crypto"))
              ELSE Return(RateQuote(Mul(try_usdc, r.ret), <<<<"TRY">>, <<"USDC">>, TShow>>))
    /\ UNCHANGED <<clock, earlier, reverse, calls, limit, asked, session>>

(* quote(), line 216 *)
Step216(resp) ==
    /\ pc = "L216"
    /\ LET r == EurToPln(Eng, resp)
       IN  /\ SetEng(r.st)
           /\ Goto("L217", [frame EXCEPT !.eur_pln = r.ret])
    /\ UNCHANGED <<clock, earlier, reverse, calls, limit, asked, session>>

(* quote(), lines 222-223: the guard before the PLN->crypto composition *)
PlnLegsMissing(eur_pln, usdc_eur) ==
    eur_pln = None \/ eur_pln = Zero \/ usdc_eur = None \/ usdc_eur = Zero

(* quote(), lines 217-218, 222-223 *)
Step217(up) ==
    /\ pc = "L217"
    /\ LET r == GetPrice(Eng, clock, "USDC", "EUR", up)
       IN  /\ SetEng(r.st)
           /\ IF r.ret = None
              THEN Goto("L219", frame)
              ELSE IF PlnLegsMissing(frame.eur_pln, r.ret)
                   THEN Return(ValueError("PLN route not available (EUR/PLN or USDC/EUR)"))
                   ELSE Goto("L230", [frame EXCEPT !.usdc_eur = r.ret])
    /\ UNCHANGED <<clock, earlier, reverse, calls, limit, asked, session>>

(* quote(), lines 219-223 *)
Step219(up) ==
    /\ pc = "L219"
    /\ LET r == GetPrice(Eng, clock, "EUR", "USDC", up)
           usdc_eur == IF Truthy(r.ret) THEN Inv(r.ret) ELSE None
       IN  /\ SetEng(r.st)
           /\ IF PlnLegsMissing(frame.eur_pln, usdc_eur)
              THEN Return(ValueError("PLN route not available (EUR/PLN or USDC/EUR)"))
              ELSE Goto("L230", [frame EXCEPT !.usdc_eur = usdc_eur])
    /\ UNCHANGED <<clock, earlier, reverse, calls, limit, asked, session>>

(* quote(), lines 225-233 *)
Step230PlnNotInverted(up) ==
    /\ pc = "L230"
    /\ LET r == Leg(T = "USDC", "USDC", T, up)
           eur_to_usdc == Inv(frame.usdc_eur)
           pln_usdc == Mul(frame.eur_pln, eur_to_usdc)
       IN  /\ SetEng(r.st)
           /\ IF r.ret = None
              THEN Return(ValueError("No USDC route for crypto"))
              ELSE Return(RateQuote(Mul(pln_usdc, r.ret),
                                    <<<<"PLN">>, <<"EUR">>, <<"USDC">>, TShow>>))
    /\ UNCHANGED <<clock, earlier, reverse, calls, limit, asked, session>>

Step230(up) ==
    /\ pc = "L230"
    /\ LET r == Leg(T = "USDC", "USDC", T, up)
           pln_eur == Inv(frame.eur_pln)
           eur_to_usdc == Inv(frame.usdc_eur)
           pln_usdc == Mul(pln_eur, eur_to_usdc)
       IN  /\ SetEng(r.st)
           /\ IF r.ret = None
              THEN Return(ValueError("No USDC route for crypto"))
              ELSE Return(RateQuote(Mul(pln_usdc, r.ret),
                                    <<<<"PLN">>, <<"EUR">>, <<"USDC">>, TShow>>))
    /\ UNCHANGED <<clock, earlier, reverse, calls, limit, asked, session>>

(* a caller's own get_price(base, quote), lines 84-128 *)
GetPriceCall(base, quote, gap, up) ==
    /\ pc = "idle"
    /\ calls < limit
    /\ calls' = calls + 1
    /\ clock' = clock + gap
    /\ LET r == GetPrice([Eng EXCEPT !.stats = StartOf("get_price", base, quote)],
                         clock + gap, base, quote, up)
       IN  /\ SetEng(r.st)
           /\ result' = PriceResult(r.ret)
    /\ earlier' = NoEarlier
    /\ reverse' = NoReverse
    /\ UNCHANGED <<pc, frame, limit, asked, session>>

(* the requests a run's callers make: the asked tickers, in any order *)
Asked == {asked[1], asked[2]}

(* seconds between the end of one call and the start of the next *)
Gaps == IF calls = 0 THEN {0} ELSE {0, cache_ttl - 1, cache_ttl, RefreshInterval}

Call ==
    \/ \E a, b \in Asked, g \in Gaps : QuoteCall(a, b, g)
    \/ pc = "idle" /\ calls < limit
       /\ \E a, b \in Asked, g \in Gaps : \E up \in Replies(Eng, clock + g, a, b) :
              GetPriceCall(a, b, g, up)

CryptoLegs ==
    \/ pc = "L164" /\ \E up \in Replies(Eng, clock, F, T) : Step164(up)
    \/ pc = "L173" /\ \E up \in Replies(Eng, clock, F, "USDC") : Step173(up)
    \/ pc = "L174" /\ \E up \in Replies(Eng, clock, "USDC", T) : Step174(up)

FiatLegs ==
    \/ pc = "L181" /\ \E up \in Replies(Eng, clock, F, "USDC") : Step181(up)
    \/ pc = "L186" /\ \E up \in Replies(Eng, clock, "USDC", "TRY") : Step186(up)
    \/ pc = "L192" /\ \E up \in Replies(Eng, clock, "USDC", "EUR") : Step192(up)
    \/ pc = "L195" /\ \E up \in Replies(Eng, clock, "EUR", "USDC") : Step195(up)
    \/ \E resp \in FxResponses : Step198(resp)
    \/ pc = "L206" /\ \E up \in Replies(Eng, clock, "USDC", "TRY") : Step206(up)
    \/ pc = "L210" /\ \E up \in Replies(Eng, clock, "USDC", T) : Step210(up)
    \/ \E resp \in FxResponses : Step216(resp)
    \/ pc = "L217" /\ \E up \in Replies(Eng, clock, "USDC", "EUR") : Step217(up)
    \/ pc = "L219" /\ \E up \in Replies(Eng, clock, "EUR", "USDC") : Step219(up)
    \/ pc = "L230" /\ \E up \in Replies(Eng, clock, "USDC", T) : Step230(up)

(* build_app: no conversation yet, an empty orders table *)
InitChat ==
    /\ state = "END"
    /\ user_data = <<>>
    /\ orders = <<>>
    /\ outbox = <<>>
    /\ keyboards = {}
    /\ quote_calls = <<>>
    /\ starts = 0
    /\ admin_data = <<>>

(* build_app, line 673: the fee tiers of the configured rate table, the default fee *)
ManualTiers == {Rat(1, 1), Rat(3, 2), Rat(2, 1), Rat(5, 2)}
default_fee == Rat(5, 2)
InitSession ==
    /\ InitChat
    /\ manual_tiers = ManualTiers
    /\ manual_fee = default_fee
    /\ manual_tier = None

(* One call from a fresh engine, on any of the pairs *)
Init == InitEngine /\ InitSession /\ rates_backend = "BinanceRates" /\ asked \in Pairs /\ limit = MaxCalls
Next == Call \/ CryptoLegs \/ FiatLegs
Spec == Init /\ [][Next]_vars

(* A sequence of calls on crypto tickers (no fiat route is entered) *)
InitSeq == InitEngine /\ InitSession /\ rates_backend = "BinanceRates" /\ asked \in SeqPairs /\ limit = MaxSeq
NextSeq == Call \/ CryptoLegs
SpecSeq == InitSeq /\ [][NextSeq]_vars

(* A sequence of calls on a pair whose market price moves *)
InitDir == InitEngine /\ InitSession /\ rates_backend = "BinanceRates" /\ asked \in MovingPairs /\ limit = MaxSeq
NextDir == Call \/ CryptoLegs
SpecDir == InitDir /\ [][NextDir]_vars

-----------------------------------------------------------------------------
(* The order conversation of main.py *)

END == "END"
States == {"S_LANG", "S_DIR", "S_FROM", "S_TO", "S_AMOUNT", "S_FEE", "S_CONFIRM",
           "S_PROOF", "S_PAYOUT"}

(* the asset lists the keyboards are built from; one asset of each kind *)
FIAT == {"TRY"}
CRYPTO == {"USDT"}

(* the environment of the process *)
Env == [FEE_CODE_1P |-> "VIP1", FEE_CODE_15P |-> "", FEE_CODE_2P |-> "",
        DEFAULT_FEE_PCT |-> Rat(5, 2)]
AdminIds == <<"admin1">>
User == [id |-> "user1", username |-> "user1"]

(* what the user may type *)
AmountTexts == {"abc", "0", "2", "nan"}
FeeTexts == {"VIP1", "no code"}
ProofMessages == {[text |-> "tx1", file |-> ""], [text |-> "", file |-> "photo"],
                  [text |-> "", file |-> "document"]}
PayoutTexts == {"TR00 0000"}

(* a button is <<prefix, value>>; a keyboard is the set of its buttons *)
CancelButton == <<"cancel", "">>
lang_kb == {<<"lang", "en">>, <<"lang", "tr">>}
direction_kb == {<<"dir", "crypto_to_fiat">>, <<"dir", "fiat_to_crypto">>}
asset_kb(assets, prefix) == {<<prefix, a>> : a \in assets} \cup {CancelButton}
confirm_sent_kb == {<<"sent", "">>, CancelButton}

(* the buttons on display whose callback data start with the prefix *)
Pressable(prefix) ==
    UNION {{<<kb, d>> : d \in {b \in kb : b[1] = prefix}} : kb \in keyboards}
(* q.edit_message_text(text, reply_markup=kb) on the message the button is on *)
EditKeyboard(old, new) == (keyboards \ {old}) \cup new

Put(f, k, v) == [x \in DOMAIN f \cup {k} |-> IF x = k THEN v ELSE f[x]]
get_lang == IF "lang" \in DOMAIN user_data THEN user_data["lang"] ELSE "en"
Msg(to, key, path) == [to |-> to, key |-> key, path |-> path]
Reply(key) == <<Msg(User.id, key, <<>>)>>

Sub(x, y) == Rat(x[1] * y[2] - y[1] * x[2], x[2] * y[2])
Hundredth(x) == Rat(x[1], 100 * x[2])

(* the float nan: every comparison with it is false, every product with it is nan *)
NaN == <<0, 0>>
LeqZero(x) == x # NaN /\ x[1] <= 0
FMul(x, y) == IF x = NaN \/ y = NaN THEN NaN ELSE Mul(x, y)

(* float(txt): None stands for the ValueError of a text that is no number *)
ParseFloat(txt) ==
    CASE txt = "2" -> Rat(2, 1)
      [] txt = "0" -> Zero
      [] txt = "nan" -> NaN
      [] OTHER -> None

fee_pct_from_code(code) ==
    IF code # "" /\ Env.FEE_CODE_1P # "" /\ code = Env.FEE_CODE_1P THEN Rat(1, 1)
    ELSE IF code # "" /\ Env.FEE_CODE_15P # "" /\ code = Env.FEE_CODE_15P THEN Rat(3, 2)
    ELSE IF code # "" /\ Env.FEE_CODE_2P # "" /\ code = Env.FEE_CODE_2P THEN Rat(2, 1)
    ELSE Env.DEFAULT_FEE_PCT

(* db.py: the columns of the orders table, the timestamps left out *)
Columns == {"id", "user_id", "username", "lang", "direction", "from_asset", "to_asset",
            "amount_from", "amount_to", "rate", "fee_pct", "status", "proof_type",
            "proof_value", "proof_file_id"}
(* DB.create_order: the INSERT fails on a column the table does not have and on a
   NOT NULL REAL column bound to nan, which sqlite stores as NULL *)
RealNotNull == {"amount_from", "amount_to", "rate", "fee_pct"}
Inserts(fields) ==
    /\ DOMAIN fields \subseteq Columns
    /\ \A c \in RealNotNull : c \in DOMAIN fields /\ fields[c] # NaN
(* DB.create_order: the row the INSERT leaves in the table *)
Row(id, fields) ==
    [c \in Columns |-> IF c = "id" THEN id
                       ELSE IF c \in DOMAIN fields THEN fields[c] ELSE None]
(* DB.update_order: the statement fails on a column the table does not have *)
update_order(tbl, id, fields) ==
    IF ~(DOMAIN fields \subseteq Columns) THEN [ok |-> FALSE, orders |-> tbl]
    ELSE IF id \notin DOMAIN tbl THEN [ok |-> TRUE, orders |-> tbl]
    ELSE [ok |-> TRUE,
          orders |-> [tbl EXCEPT ![id] =
                         [c \in Columns |-> IF c \in DOMAIN fields THEN fields[c]
                                            ELSE @[c]]]]

(* the parameters a call of quote() can bind, besides self *)
BinanceQuoteParams == {"from_asset", "to_asset"}
ManualQuoteParams == {"from_asset", "to_asset", "fee_pct"}
(* on_fee, line 266: rates.quote(from_asset, to_asset, fee_pct=fee_pct) *)
QuoteCallKeywords == {"fee_pct"}
TypeError(msg) == [kind |-> "type_error", rate |-> None, path |-> <<>>, msg |-> msg]
MissingManualRate == [kind |-> "error", rate |-> None, path |-> <<>>,
                      msg |-> "MissingManualRate"]
(* ManualVipRates.quote: a quote of the selected tier, or no rate configured *)
ManualQuote(from_asset, to_asset, fee_pct) ==
    {RateQuote(Rat(2, 1), <<<<from_asset>>, <<to_asset>>>>), MissingManualRate}
(* what quote() of the engine hands back once a call has bound its arguments *)
EngineQuote(from_asset, to_asset) ==
    {RateQuote(Rat(2, 1), <<<<from_asset>>, <<to_asset>>>>), ValueError("Unsupported conversion")}
(* the outcomes of the call at line 266, by the class of bot_data["rates"] *)
WorkflowQuote(backend, from_asset, to_asset, fee_pct) ==
    IF backend = "BinanceRates"
    THEN IF QuoteCallKeywords \subseteq BinanceQuoteParams
         THEN EngineQuote(from_asset, to_asset)
         ELSE {TypeError("quote() got an unexpected keyword argument 'fee_pct'")}
    ELSE IF QuoteCallKeywords \subseteq ManualQuoteParams
         THEN ManualQuote(from_asset, to_asset, fee_pct)
         ELSE {TypeError("quote() got an unexpected keyword argument 'fee_pct'")}

(* cmd_start, lines 173-176: entry point, and fallback of every state *)
CmdStart ==
    /\ starts < MaxStarts
    /\ starts' = starts + 1
    /\ user_data' = <<>>
    /\ outbox' = Reply("choose_lang")
    /\ keyboards' = keyboards \cup {lang_kb}
    /\ state' = "S_LANG"
    /\ UNCHANGED <<orders, quote_calls, rates_backend, admin_data, tiering, engine>>

(* on_lang, lines 189-196 *)
OnLang ==
    /\ state = "S_LANG"
    /\ \E p \in Pressable("lang") :
          /\ user_data' = Put(user_data, "lang", p[2][2])
          /\ keyboards' = EditKeyboard(p[1], {direction_kb})
    /\ outbox' = <<>>
    /\ state' = "S_DIR"
    /\ UNCHANGED <<orders, quote_calls, starts, rates_backend, admin_data, tiering, engine>>

(* on_dir, lines 199-210 *)
OnDir ==
    /\ state = "S_DIR"
    /\ \E p \in Pressable("dir") :
          /\ user_data' = Put(user_data, "direction", p[2][2])
          /\ keyboards' = EditKeyboard(p[1],
                 {IF p[2][2] = "crypto_to_fiat" THEN asset_kb(CRYPTO, "from")
                                                ELSE asset_kb(FIAT, "from")})
    /\ outbox' = <<>>
    /\ state' = "S_FROM"
    /\ UNCHANGED <<orders, quote_calls, starts, rates_backend, admin_data, tiering, engine>>

(* on_from_asset, lines 213-223 *)
OnFromAsset ==
    /\ state = "S_FROM"
    /\ \E p \in Pressable("from") :
          /\ user_data' = Put(user_data, "from", p[2][2])
          /\ keyboards' = EditKeyboard(p[1],
                 {IF "direction" \in DOMAIN user_data
                     /\ user_data["direction"] = "crypto_to_fiat"
                  THEN asset_kb(FIAT, "to") ELSE asset_kb(CRYPTO, "to")})
    /\ outbox' = <<>>
    /\ state' = "S_TO"
    /\ UNCHANGED <<orders, quote_calls, starts, rates_backend, admin_data, tiering, engine>>

(* on_to_asset, lines 226-233 *)
OnToAsset ==
    /\ state = "S_TO"
    /\ \E p \in Pressable("to") :
          /\ user_data' = Put(user_data, "to", p[2][2])
          /\ keyboards' = EditKeyboard(p[1], {})
    /\ outbox' = <<>>
    /\ state' = "S_AMOUNT"
    /\ UNCHANGED <<orders, quote_calls, starts, rates_backend, admin_data, tiering, engine>>

(* on_amount, lines 236-250 *)
OnAmount(txt) ==
    /\ state = "S_AMOUNT"
    /\ LET amount == ParseFloat(txt)
       IN  IF amount = None \/ LeqZero(amount)
           THEN /\ outbox' = Reply("bad_amount")
                /\ UNCHANGED <<state, user_data>>
           ELSE /\ user_data' = Put(user_data, "amount_from", amount)
                /\ outbox' = Reply("enter_fee_code")
                /\ state' = "S_FEE"
    /\ UNCHANGED <<orders, keyboards, quote_calls, starts, rates_backend, admin_data, tiering, engine>>

(* on_fee, lines 278-290: the keyword arguments of db.create_order *)
OrderFieldsNetRate(ud, fee_pct, rate) ==
    LET net == Mul(rate, Sub(One, Hundredth(fee_pct)))
    IN  [user_id |-> User.id, username |-> User.username,
         lang |-> IF "lang" \in DOMAIN ud THEN ud["lang"] ELSE "en",
         direction |-> ud["direction"], from_asset |-> ud["from"],
         to_asset |-> ud["to"], amount_from |-> ud["amount_from"],
         amount_to |-> FMul(ud["amount_from"], net),
         rate |-> net, fee_pct |-> fee_pct, status |-> "awaiting_proof"]
OrderFields(ud, fee_pct, rate) ==
    [user_id |-> User.id, username |-> User.username,
     lang |-> IF "lang" \in DOMAIN ud THEN ud["lang"] ELSE "en",
     direction |-> ud["direction"], from_asset |-> ud["from"],
     to_asset |-> ud["to"], amount_from |-> ud["amount_from"],
     amount_to |-> FMul(FMul(ud["amount_from"], rate), Sub(One, Hundredth(fee_pct))),
     rate |-> rate, fee_pct |-> fee_pct, status |-> "awaiting_proof"]

(* on_fee, lines 326-350: the two messages every admin is sent *)
RECURSIVE NotifyNewOrder(_, _)
NotifyNewOrder(admins, path) ==
    IF admins = <<>> THEN <<>>
    ELSE <<Msg(Head(admins), "new_order", <<>>), Msg(Head(admins), "order_details", path)>>
         \o NotifyNewOrder(Tail(admins), path)

(* on_fee, lines 267-270: `except Exception` around the call of quote() *)
RateErrorTellsAdmins ==
    /\ outbox' = Reply("unknown") \o NotifyNewOrder(AdminIds, <<>>)
    /\ state' = END
    /\ UNCHANGED <<orders, keyboards>>
RateError ==
    /\ outbox' = Reply("unknown")
    /\ state' = END
    /\ UNCHANGED <<orders, keyboards>>

(* on_fee, lines 253-352; an exception of create_order leaves the handler before it
   replies, and the conversation stays in its state *)
OnFee(code) ==
    /\ state = "S_FEE"
    /\ Len(quote_calls) < MaxQuotes
    /\ LET fee_pct == fee_pct_from_code(code)
           ud == Put(user_data, "fee_pct", fee_pct)
           order_id == Len(orders) + 1
       IN  \E quote \in WorkflowQuote(rates_backend, ud["from"], ud["to"], fee_pct) :
              IF quote.kind # "quote"
              THEN /\ quote_calls' = Append(quote_calls,
                          [handler |-> "on_fee", order |-> 0, fee_pct |-> fee_pct,
                           outcome |-> quote])
                   /\ user_data' = ud
                   /\ RateError
              ELSE IF ~Inserts(OrderFields(ud, fee_pct, quote.rate))
              THEN /\ quote_calls' = Append(quote_calls,
                          [handler |-> "on_fee", order |-> 0, fee_pct |-> fee_pct,
                           outcome |-> quote])
                   /\ user_data' = ud
                   /\ outbox' = <<>>
                   /\ UNCHANGED <<state, orders, keyboards>>
              ELSE /\ quote_calls' = Append(quote_calls,
                          [handler |-> "on_fee", order |-> order_id, fee_pct |-> fee_pct,
                           outcome |-> quote])
                   /\ orders' = Append(orders,
                          Row(order_id, OrderFields(ud, fee_pct, quote.rate)))
                   /\ user_data' = Put(ud, "order_id", order_id)
                   /\ outbox' = <<Msg(User.id, "quote", quote.path)>>
                                \o NotifyNewOrder(AdminIds, quote.path)
                   /\ keyboards' = keyboards \cup {confirm_sent_kb}
                   /\ state' = "S_CONFIRM"
    /\ UNCHANGED <<starts, rates_backend, admin_data, tiering, engine>>

(* on_confirm_buttons, lines 355-376 *)
OnConfirmButtons ==
    /\ state = "S_CONFIRM"
    /\ \E p \in Pressable("sent") \cup Pressable("cancel") :
          /\ keyboards' = EditKeyboard(p[1], {})
          /\ IF p[2] = CancelButton
             THEN /\ orders' = IF "order_id" \in DOMAIN user_data
                                THEN update_order(orders, user_data["order_id"],
                                                  [status |-> "cancelled"]).orders
                                ELSE orders
                  /\ state' = END
             ELSE /\ state' = "S_PROOF"
                  /\ UNCHANGED orders
    /\ outbox' = <<>>
    /\ UNCHANGED <<user_data, quote_calls, starts, rates_backend, admin_data, tiering, engine>>

(* on_proof, lines 398-426: the proof a message carries, None when it carries none *)
ProofOf(direction, m) ==
    IF direction = "crypto_to_fiat"
    THEN IF m.text = "" THEN None
         ELSE [proof_type |-> "txid", proof_value |-> m.text, proof_file_id |-> ""]
    ELSE IF m.file # ""
         THEN [proof_type |-> "receipt", proof_value |-> m.file, proof_file_id |-> m.file]
         ELSE IF m.text = "" THEN None
              ELSE [proof_type |-> "reference", proof_value |-> m.text,
                    proof_file_id |-> ""]

(* on_proof, lines 442-454: what every admin is sent *)
RECURSIVE NotifyProof(_, _)
NotifyProof(admins, proof) ==
    IF admins = <<>> THEN <<>>
    ELSE <<Msg(Head(admins), "proof_received", <<>>)>>
         \o (IF proof.proof_file_id # "" /\ proof.proof_type = "receipt"
             THEN <<Msg(Head(admins), "receipt_file", <<>>)>> ELSE <<>>)
         \o NotifyProof(Tail(admins), proof)

(* on_proof, lines 379-454 *)
OnProof(m) ==
    /\ state = "S_PROOF"
    /\ IF "order_id" \notin DOMAIN user_data
       THEN /\ outbox' = Reply("unknown")
            /\ state' = END
            /\ UNCHANGED orders
       ELSE LET direction == IF "direction" \in DOMAIN user_data
                             THEN user_data["direction"] ELSE ""
                proof == ProofOf(direction, m)
            IN  IF proof = None
                THEN /\ outbox' = Reply(IF direction = "crypto_to_fiat"
                                        THEN "ask_txid" ELSE "ask_receipt")
                     /\ UNCHANGED <<state, orders>>
                ELSE LET upd == update_order(orders, user_data["order_id"],
                                    [status |-> "awaiting_payout_details",
                                     proof_type |-> proof.proof_type,
                                     proof_value |-> proof.proof_value,
                                     proof_file_id |-> proof.proof_file_id])
                     IN  /\ orders' = upd.orders
                         /\ IF upd.ok
                            THEN /\ outbox' = NotifyProof(AdminIds, proof)
                                              \o Reply("payout_prompt")
                                 /\ state' = "S_PAYOUT"
                            ELSE /\ outbox' = <<>>
                                 /\ UNCHANGED state
    /\ UNCHANGED <<user_data, keyboards, quote_calls, starts, rates_backend, admin_data, tiering, engine>>

(* on_payout_details, lines 489-499: what every admin is sent *)
RECURSIVE NotifyPayout(_)
NotifyPayout(admins) ==
    IF admins = <<>> THEN <<>>
    ELSE <<Msg(Head(admins), "payout_details", <<>>)>> \o NotifyPayout(Tail(admins))

(* on_payout_details, lines 457-501; an exception of update_order leaves the handler
   before it replies, and the conversation stays in its state *)
OnPayoutDetails(txt) ==
    /\ state = "S_PAYOUT"
    /\ IF "order_id" \notin DOMAIN user_data
       THEN /\ outbox' = Reply("unknown")
            /\ state' = END
            /\ UNCHANGED orders
       ELSE IF txt = ""
       THEN /\ outbox' = Reply("send_as_text")
            /\ UNCHANGED <<state, orders>>
       ELSE LET direction == IF "direction" \in DOMAIN user_data
                             THEN user_data["direction"] ELSE ""
                upd == update_order(orders, user_data["order_id"],
                           [status |-> "processing",
                            payout_type |-> IF direction = "crypto_to_fiat"
                                            THEN "bank" ELSE "crypto_address",
                            payout_details |-> txt])
            IN  /\ orders' = upd.orders
                /\ IF upd.ok
                   THEN /\ outbox' = Reply("saved") \o NotifyPayout(AdminIds)
                        /\ state' = END
                   ELSE /\ outbox' = <<>>
                        /\ UNCHANGED state
    /\ UNCHANGED <<user_data, keyboards, quote_calls, starts, rates_backend, admin_data, tiering, engine>>

(* on_cancel_any, lines 504-511: the fallback of a cancel button no state handler takes *)
OnCancelAny ==
    /\ state \in States \ {"S_CONFIRM"}
    /\ \E p \in Pressable("cancel") : keyboards' = EditKeyboard(p[1], {})
    /\ outbox' = <<>>
    /\ state' = END
    /\ UNCHANGED <<user_data, orders, quote_calls, starts, rates_backend, admin_data, tiering, engine>>

Conversation ==
    \/ CmdStart
    \/ OnLang
    \/ OnDir
    \/ OnFromAsset
    \/ OnToAsset
    \/ \E txt \in AmountTexts : OnAmount(txt)
    \/ \E code \in FeeTexts : OnFee(code)

Fulfilment ==
    \/ OnConfirmButtons
    \/ \E m \in ProofMessages : OnProof(m)
    \/ \E txt \in PayoutTexts : OnPayoutDetails(txt)

(* The conversation as build_app wires it, with the manual backend *)
InitFlow == InitEngine /\ InitSession /\ asked = <<"USDT", "TRY">> /\ limit = 0
                       /\ rates_backend = "ManualVipRates"
NextFlow == Conversation \/ Fulfilment \/ OnCancelAny
SpecFlow == InitFlow /\ [][NextFlow]_vars

(* The conversation with the live-market router behind bot_data["rates"] *)
InitLive == InitEngine /\ InitSession /\ asked = <<"USDT", "TRY">> /\ limit = 0
                       /\ rates_backend = "BinanceRates"
NextLive == Conversation \/ OnCancelAny
SpecLive == InitLive /\ [][NextLive]_vars

-----------------------------------------------------------------------------
(* The admin commands of main.py *)

Admin == Head(AdminIds)
Callers == {User.id, Admin}
is_adminAnyone(who) == TRUE
is_admin(who) == \E n \in 1..Len(AdminIds) : AdminIds[n] = who

(* context.args of a command, and int() of the texts that are numbers *)
IntOf == [x \in {"1", "2", "3"} |-> IF x = "1" THEN 1 ELSE IF x = "2" THEN 2 ELSE 3]
AdminArgs == {<<>>, <<"x", "T1">>} \cup {<<x>> : x \in DOMAIN IntOf}
                 \cup {<<x, "T1">> : x \in DOMAIN IntOf}
ReceiptFiles == {"photo", "document"}
Awaiting == "awaiting_admin_receipt_order_id"

(* context.user_data of the caller of a command *)
DataOf(who) == IF who = User.id THEN user_data ELSE admin_data
SetData(who, data) ==
    IF who = User.id THEN user_data' = data /\ UNCHANGED admin_data
                     ELSE admin_data' = data /\ UNCHANGED user_data
Drop(f, k) == [x \in DOMAIN f \ {k} |-> f[x]]
To(who, key) == <<Msg(who, key, <<>>)>>

(* admin_orders, lines 516-529 *)
AdminOrders(who) ==
    /\ outbox' = IF ~is_admin(who) THEN To(who, "not_admin") ELSE To(who, "last_orders")
    /\ UNCHANGED <<state, user_data, orders, keyboards, quote_calls, starts,
                   rates_backend, admin_data, tiering, engine>>

(* admin_complete, lines 532-578; an exception of update_order ends the handler *)
AdminComplete(who, args) ==
    /\ IF ~is_admin(who)
       THEN outbox' = To(who, "not_admin") /\ UNCHANGED orders
       ELSE IF Len(args) < 2
       THEN outbox' = To(who, "usage") /\ UNCHANGED orders
       ELSE IF args[1] \notin DOMAIN IntOf
       THEN outbox' = To(who, "not_a_number") /\ UNCHANGED orders
       ELSE IF IntOf[args[1]] \notin DOMAIN orders
       THEN outbox' = To(who, "order_not_found") /\ UNCHANGED orders
       ELSE LET oid == IntOf[args[1]]
                upd == update_order(orders, oid,
                           [status |-> "done", admin_transfer_id |-> args[2]])
            IN  /\ orders' = upd.orders
                /\ outbox' = IF upd.ok
                              THEN To(orders[oid]["user_id"], "completed")
                                   \o To(who, "marked_done")
                              ELSE <<>>
    /\ UNCHANGED <<state, user_data, keyboards, quote_calls, starts,
                   rates_backend, admin_data, tiering, engine>>

(* admin_receipt_cmd, lines 581-609 *)
AdminReceiptCmd(who, args) ==
    /\ IF ~is_admin(who)
       THEN outbox' = To(who, "not_admin") /\ UNCHANGED <<user_data, admin_data>>
       ELSE IF Len(args) < 1
       THEN outbox' = To(who, "usage") /\ UNCHANGED <<user_data, admin_data>>
       ELSE IF args[1] \notin DOMAIN IntOf
       THEN outbox' = To(who, "not_a_number") /\ UNCHANGED <<user_data, admin_data>>
       ELSE IF IntOf[args[1]] \notin DOMAIN orders
       THEN outbox' = To(who, "order_not_found") /\ UNCHANGED <<user_data, admin_data>>
       ELSE /\ SetData(who, Put(DataOf(who), Awaiting, IntOf[args[1]]))
            /\ outbox' = To(who, "send_receipt")
    /\ UNCHANGED <<state, orders, keyboards, quote_calls, starts,
                   rates_backend, tiering, engine>>

(* on_admin_receipt_file, lines 612-658: a photo or document no conversation state
   takes; an exception of update_order ends the handler *)
OnAdminReceiptFile(who, file) ==
    /\ who = User.id => state # "S_PROOF"
    /\ IF ~is_admin(who) \/ Awaiting \notin DOMAIN DataOf(who)
       THEN outbox' = <<>> /\ UNCHANGED <<orders, user_data, admin_data>>
       ELSE LET oid == DataOf(who)[Awaiting]
            IN  IF oid \notin DOMAIN orders
                THEN /\ outbox' = To(who, "order_not_found")
                     /\ SetData(who, Drop(DataOf(who), Awaiting))
                     /\ UNCHANGED orders
                ELSE LET upd == update_order(orders, oid,
                                    [admin_receipt_file_id |-> file])
                     IN  /\ orders' = upd.orders
                         /\ IF upd.ok
                            THEN /\ SetData(who, Drop(DataOf(who), Awaiting))
                                 /\ outbox' = To(who, "receipt_attached")
                                       \o To(orders[oid]["user_id"], "receipt_uploaded")
                                       \o To(orders[oid]["user_id"], "receipt_file")
                            ELSE /\ outbox' = <<>>
                                 /\ UNCHANGED <<user_data, admin_data>>
    /\ UNCHANGED <<state, keyboards, quote_calls, starts, rates_backend, tiering, engine>>

AdminCommands ==
    \/ \E who \in Callers : AdminOrders(who)
    \/ \E who \in Callers, args \in AdminArgs : AdminComplete(who, args)
    \/ \E who \in Callers, args \in AdminArgs : AdminReceiptCmd(who, args)
    \/ \E who \in Callers, file \in ReceiptFiles : OnAdminReceiptFile(who, file)

(* The conversation and the admin commands; the user starts one conversation fewer *)
InitAdmin == InitEngine /\ InitSession /\ asked = <<"USDT", "TRY">> /\ limit = 0
                        /\ rates_backend = "ManualVipRates"
NextAdmin ==
    \/ starts < MaxStarts - 1 /\ CmdStart
    \/ OnLang \/ OnDir \/ OnFromAsset \/ OnToAsset
    \/ \E txt \in AmountTexts : OnAmount(txt)
    \/ \E code \in FeeTexts : OnFee(code)
    \/ Fulfilment
    \/ OnCancelAny
    \/ AdminCommands
SpecAdmin == InitAdmin /\ [][NextAdmin]_vars

-----------------------------------------------------------------------------
(* The tier selection of the manual rate table *)

Less(x, y) == x[1] * y[2] < y[1] * x[2]
Dist(x, y) == LET d == Sub(x, y) IN Rat(Abs(d[1]), d[2])

(* select_tier: the tier of the fee itself, else the nearest one, the lower of two
   equally near ones *)
select_tierHigherOnTie(tiers, fee) ==
    IF fee \in tiers THEN fee
    ELSE CHOOSE t \in tiers :
             \A u \in tiers : \/ Less(Dist(t, fee), Dist(u, fee))
                               \/ (Dist(t, fee) = Dist(u, fee) /\ ~Less(t, u))
select_tier(tiers, fee) ==
    IF fee \in tiers THEN fee
    ELSE CHOOSE t \in tiers :
             \A u \in tiers : \/ Less(Dist(t, fee), Dist(u, fee))
                               \/ (Dist(t, fee) = Dist(u, fee) /\ ~Less(u, t))

(* the fees asked for: every twentieth of a percent up to 3 % *)
Fees == {Rat(n, 20) : n \in 0..60}

SelectTier ==
    /\ manual_tier = None
    /\ manual_tier' = select_tier(manual_tiers, manual_fee)
    /\ UNCHANGED <<manual_tiers, manual_fee, engine, state, user_data, orders, outbox,
                   keyboards, quote_calls, starts, rates_backend, admin_data>>

(* select_tier on any non-empty table of the tiers, for any of the fees *)
InitTier ==
    /\ InitEngine /\ InitChat /\ asked = <<"USDT", "TRY">> /\ limit = 0
    /\ rates_backend = "ManualVipRates"
    /\ manual_tiers \in SUBSET ManualTiers \ {{}}
    /\ manual_fee \in Fees
    /\ manual_tier = None
NextTier == SelectTier
SpecTier == InitTier /\ [][NextTier]_vars

-----------------------------------------------------------------------------
(* Vocabulary of the properties *)
QuoteDone == pc = "idle" /\ stats.op = "quote"
Unsupported == "Unsupported conversion"
NoRouteMessages ==
    {"No route for crypto pair", "No USDC route for crypto", "USDCTRY not available",
     "PLN route not available (USDC/EUR or EUR/PLN)",
     "PLN route not available (EUR/PLN or USDC/EUR)"}
(* the messages that name one leg *)
LegNamingMessages == {"No USDC route for crypto", "USDCTRY not available"}
CryptoTickers == {"USDT", "USDC", "SOL", "ETH"}
FiatTickers == {"TRY", "PLN"}
SameAsset(a, b) ==
    Upper(a) = Upper(b) \/ {Upper(a), Upper(b)} \subseteq {"USDT", "USDC"}
FreshIn(cache, key, now) == key \in DOMAIN cache /\ now - cache[key].ts < cache_ttl
TickerReqs(log) == {n \in 1..Len(log) : log[n].kind = "ticker"}
(* the step is a caller's get_price(stats'.from, stats'.to) *)
GetPriceStep == calls' = calls + 1 /\ stats'.op = "get_price"
PriceKey(st) == <<Upper(st.from), Upper(st.to)>>
(* the reciprocal of a non-zero rate *)
Recip(x) == Rat(x[2], x[1])
(* the rates the engine holds for the hop a -> b when a quote() returns: *)
(* 1 for a = b, the EUR/PLN reference rate it fetched, a valid cache     *)
(* entry for (a, b), or the reciprocal of one for (b, a)                *)
HopRates(a, b) ==
    LET fx == {o[2] : o \in {x \in stats.obs : x[1] = <<"EUR", "PLN">>}}
        fwd == IF FreshIn(price_cache, <<a, b>>, clock) THEN {price_cache[<<a, b>>].val} ELSE {}
        bwd == IF FreshIn(price_cache, <<b, a>>, clock) THEN {price_cache[<<b, a>>].val} ELSE {}
    IN  IF a = b THEN {One}
        ELSE IF <<a, b>> = <<"EUR", "PLN">> THEN fx
        ELSE IF <<a, b>> = <<"PLN", "EUR">> THEN {Recip(x) : x \in fx \ {Zero}}
        ELSE fwd \cup {Recip(x) : x \in bwd \ {Zero}}
(* the normalized ticker of a path element *)
Ticker(e) == e[Len(e)]
RECURSIVE PathRates(_)
PathRates(path) ==
    IF Len(path) < 2 THEN {One}
    ELSE {Mul(h, r) : h \in HopRates(Ticker(path[1]), Ticker(path[2])),
                      r \in PathRates(Tail(path))}
FailedCatalogReq == \E n \in 1..Len(reqs) : reqs[n].kind = "catalog" /\ ~reqs[n].ok

(* quote("XXX","YYY") finished in fallback mode with both tickers failed *)
UnknownPairScenario ==
    /\ QuoteDone /\ stats.from = "XXX" /\ stats.to = "YYY"
    /\ symbols = {}
    /\ stats.failed = {<<"XXX", "YYY">>, <<"YYY", "XXX">>}

(* the asset-class combinations quote() has a bridge for *)
HasRoute(from, to) ==
    LET f == Upper(from)
        t == Upper(to)
    IN  \/ f \in CryptoTickers /\ t \in CryptoTickers
        \/ f \in CryptoTickers /\ t \in FiatTickers
        \/ f \in FiatTickers /\ t \in CryptoTickers

(* a finished quote() between two different fiat tickers *)
FiatToFiat ==
    /\ QuoteDone
    /\ Upper(stats.from) \in FiatTickers /\ Upper(stats.to) \in FiatTickers
    /\ Upper(stats.from) # Upper(stats.to)

(* C1: every RateQuote that quote() returns has a strictly positive rate. *)
C1_QuoteRatePositive ==
    (QuoteDone /\ result.kind = "quote") => Positive(result.rate)

(* C2: two quote() calls for the same pair, the second started less than   *)
(* cache_ttl after the first, issue at most one upstream request together. *)
C2_AtMostOneRequest ==
    (QuoteDone /\ earlier # NoEarlier)
        => earlier.requests + stats.catalog + stats.legs <= 1

(* C2 as amended: when the first of the two calls fetched a direct market  *)
(* price, the second issues no ticker or fiat-reference request and at     *)
(* most one catalog request.                                               *)
C2_CachedPairNoLegFetch ==
    (QuoteDone /\ earlier # NoEarlier /\ earlier.direct)
        => /\ stats.legs = 0
           /\ stats.catalog <= 1
           /\ result.kind = "quote"

C2_Witness ==
    QuoteDone /\ earlier.direct /\ stats.legs = 0 /\ result.kind = "quote"

(* C3: when get_price yields a price for the normalized pair (fetched or   *)
(* from a valid cache entry), quote returns exactly that price with the    *)
(* path from->to and requests no other symbol; it goes on to a bridge leg  *)
(* only when the direct lookup was absent.                                 *)
C3_DirectPreferred ==
    [][pc = "L164" =>
         IF FreshIn(price_cache', <<F, T>>, clock)
         THEN /\ pc' = "idle"
              /\ result' = [kind |-> "quote", rate |-> price_cache'[<<F, T>>].val,
                            path |-> <<FShow, TShow>>, msg |-> ""]
              /\ \A n \in TickerReqs(reqs') : reqs'[n].sym \in {<<F, T>>, <<T, F>>}
              /\ stats'.legs = Cardinality(TickerReqs(reqs'))
         ELSE pc' # "idle" \/ result'.kind = "error"]_vars

C3_Witness ==
    /\ QuoteDone /\ result.kind = "quote" /\ Len(result.path) = 2
    /\ ~SameAsset(stats.from, stats.to)
    /\ stats.legs = 0
    /\ result.rate = price_cache[<<Norm(stats.from), Norm(stats.to)>>].val

(* C4: for tickers that normalize to the same symbol, quote returns 1.0    *)
(* with the path from->to, issues no request and leaves the price cache    *)
(* and the catalog unchanged.                                              *)
C4_SameAssetIsOne ==
    [][(calls' = calls + 1 /\ stats'.op = "quote" /\ SameAsset(stats'.from, stats'.to)) =>
         /\ pc' = "idle"
         /\ result'.kind = "quote" /\ result'.rate = One
         /\ Len(result'.path) = 2
         /\ result'.path[1][1] = Upper(stats'.from)
         /\ result'.path[2][1] = Upper(stats'.to)
         /\ reqs' = <<>> /\ stats'.catalog = 0 /\ stats'.legs = 0
         /\ price_cache' = price_cache
         /\ symbols' = symbols
         /\ exchange_info_ts' = exchange_info_ts]_vars

C4_Witness ==
    /\ QuoteDone /\ stats.from = "USDT" /\ stats.to = "USDC"
    /\ result.rate = One
    /\ DOMAIN price_cache # {}

(* C5: a bridged quote with an absent leg fails with a NoRoute error that  *)
(* identifies the missing leg.                                             *)
C5_NoRouteNamesLeg ==
    (QuoteDone /\ result.kind = "error" /\ result.msg # Unsupported)
        => result.msg \in LegNamingMessages

(* C6: with an empty catalog and both ticker fetches failed,               *)
(* quote("XXX","YYY") fails with NoRoute, not with UnsupportedPair.        *)
C6_UnknownPairNoRoute ==
    UnknownPairScenario => (result.kind = "error" /\ result.msg \in NoRouteMessages)

(* C6 as amended: that call fails with "Unsupported conversion"; a failed  *)
(* quote is NoRoute exactly when the pair is crypto->crypto, crypto->fiat  *)
(* or fiat->crypto, and UnsupportedPair otherwise.                         *)
C6_UnknownPairUnsupported ==
    (QuoteDone /\ result.kind = "error")
        => /\ result.msg \in NoRouteMessages \cup {Unsupported}
           /\ (result.msg = Unsupported) <=> ~HasRoute(stats.from, stats.to)

C6_Witness == UnknownPairScenario /\ result.msg = Unsupported

(* C7: a fiat->fiat request with no direct market price tries a fiat       *)
(* reference rate and the fiat->USDC->fiat bridge instead of failing as an *)
(* unsupported pair.                                                       *)
C7_FiatToFiatBridged ==
    (FiatToFiat /\ ~(result.kind = "quote" /\ Len(result.path) = 2))
        => /\ result.msg # Unsupported
           /\ stats.legs > Cardinality(TickerReqs(reqs))

(* C7 as amended: such a request is answered from the direct or inverse    *)
(* market symbol alone; with no market price it requests no reference rate *)
(* and no bridge leg and fails with "Unsupported conversion".              *)
C7_FiatToFiatUnsupported ==
    FiatToFiat =>
        /\ \/ result.kind = "quote" /\ Len(result.path) = 2
           \/ result = ValueError(Unsupported)
        /\ \A n \in 1..Len(reqs) :
               /\ reqs[n].kind # "fx"
               /\ reqs[n].kind = "ticker" =>
                      reqs[n].sym \in {<<Upper(stats.from), Upper(stats.to)>>,
                                       <<Upper(stats.to), Upper(stats.from)>>}
        /\ stats.legs = Cardinality(TickerReqs(reqs))

C7_Witness == FiatToFiat /\ result = ValueError(Unsupported) /\ stats.legs = 2

(* C8: one quote() invocation issues at most one catalog request and at    *)
(* most three leg fetches (ticker or fiat reference).                      *)
C8_RequestBudget ==
    stats.op = "quote" => (stats.catalog <= 1 /\ stats.legs <= 3)

(* C9: within one quote() invocation a ticker symbol whose request failed  *)
(* is not requested again.                                                 *)
C9_NoRetry == stats.op = "quote" => ~stats.retried

(* C10: two catalog requests are never less than one refresh interval     *)
(* apart.                                                                 *)
C10_CatalogSpacing ==
    Len(catalog_fetched_at) = 2
        => catalog_fetched_at[2] - catalog_fetched_at[1] >= RefreshInterval

(* C11: after a catalog refresh that failed (exception, unparsable body,  *)
(* non-200 status) the symbol set is empty and the catalog timestamp is   *)
(* cleared (back to its initial value).                                   *)
C11_FailedRefreshClears ==
    FailedCatalogReq => (symbols = {} /\ exchange_info_ts = 0)

(* C11 as amended: after a failed catalog refresh the call has not raised, *)
(* the symbol set is empty (fallback mode) even if a non-empty catalog was *)
(* held before, and the catalog timestamp is the time of the failed        *)
(* attempt.                                                                *)
C11_FailedRefreshFallback ==
    FailedCatalogReq =>
        /\ symbols = {}
        /\ exchange_info_ts = clock
        /\ result.kind \in {"none", "price", "quote", "error"}
        /\ result.kind = "error" => result.msg \in NoRouteMessages \cup {Unsupported}

C11_Witness ==
    FailedCatalogReq /\ stats.dropped /\ symbols = {} /\ exchange_info_ts = RefreshInterval

(* C12: get_price returns a cached price only while now - fetched_at <    *)
(* cache_ttl; at or after expiry the entry is ignored and a new ticker    *)
(* fetch is issued; a successful fetch overwrites the entry and entries   *)
(* are never removed.                                                     *)
C12_ExpiredAlwaysRefetched ==
    [][GetPriceStep =>
         LET key == PriceKey(stats')
         IN  /\ DOMAIN price_cache \subseteq DOMAIN price_cache'
             /\ key \in DOMAIN price_cache =>
                    IF clock' - price_cache[key].ts < cache_ttl
                    THEN result'.rate = price_cache[key].val /\ stats'.legs = 0
                    ELSE stats'.legs > 0]_vars

(* C12 as amended: at or after expiry get_price goes on as on a cache     *)
(* miss: it issues a ticker fetch when the catalog is empty or lists the  *)
(* direct or inverse symbol, and none when a non-empty catalog lists      *)
(* neither; only a successful fetch changes the entry.                    *)
C12_CacheTtl ==
    [][GetPriceStep =>
         LET key == PriceKey(stats')
             known == symbols' = {} \/ key \in symbols' \/ <<key[2], key[1]>> \in symbols'
         IN  /\ DOMAIN price_cache \subseteq DOMAIN price_cache'
             /\ \A k \in DOMAIN price_cache \ {key} : price_cache'[k] = price_cache[k]
             /\ key \in DOMAIN price_cache =>
                    IF clock' - price_cache[key].ts < cache_ttl
                    THEN /\ result'.rate = price_cache[key].val
                         /\ stats'.legs = 0
                         /\ price_cache' = price_cache
                    ELSE /\ known <=> stats'.legs > 0
                         /\ result'.rate # None =>
                                /\ \E n \in TickerReqs(reqs') : reqs'[n].ok
                                /\ price_cache'[key] = [ts |-> clock', val |-> result'.rate]
                         /\ result'.rate = None => price_cache'[key] = price_cache[key]]_vars

C12_Witness ==
    /\ pc = "idle" /\ stats.op = "get_price"
    /\ PriceKey(stats) \in DOMAIN price_cache
    /\ clock - price_cache[PriceKey(stats)].ts = cache_ttl
    /\ stats.legs > 0
    /\ result.rate = None

(* C13: when quote(A,B) follows quote(B,A) within one TTL window and both *)
(* return a direct market quote taken from the one market symbol of the   *)
(* pair, the two rates are reciprocal, whatever the upstream price did in *)
(* between.                                                               *)
C13_DirectionsReciprocal ==
    (/\ QuoteDone /\ reverse # NoReverse
     /\ result.kind = "quote" /\ Len(result.path) = 2
     /\ Cardinality({o[1] : o \in stats.obs \cup reverse.obs}) <= 1)
        => Mul(result.rate, reverse.rate) = One

(* C13 as amended: the two rates are reciprocal when both calls were      *)
(* answered from one price observation each, of the same market symbol at *)
(* the same non-zero price.                                               *)
C13_SameObservationReciprocal ==
    (/\ QuoteDone /\ reverse # NoReverse
     /\ result.kind = "quote" /\ Len(result.path) = 2
     /\ Cardinality(stats.obs) = 1 /\ stats.obs = reverse.obs
     /\ \A o \in stats.obs : o[2] # Zero)
        => Mul(result.rate, reverse.rate) = One

C13_Witness ==
    /\ QuoteDone /\ reverse # NoReverse
    /\ result.kind = "quote" /\ Len(result.path) = 2
    /\ stats.obs = {<<<<"SOL", "USDC">>, Rat(3, 1)>>} /\ stats.obs = reverse.obs
    /\ result.rate = Rat(1, 3) /\ reverse.rate = Rat(3, 1)

(* C14: when the only price an invocation obtained is the inverse symbol  *)
(* at a non-zero price p (no request for it failed), get_price(base,      *)
(* quote) and quote(base, quote) yield 1/p, cached under (base, quote),   *)
(* in catalog mode and in fallback mode.                                  *)
C14_InverseIsReciprocal ==
    (pc = "idle" /\ stats.op \in {"get_price", "quote"}) =>
        LET key == IF stats.op = "quote" THEN <<Norm(stats.from), Norm(stats.to)>>
                                         ELSE PriceKey(stats)
            inverse == <<key[2], key[1]>>
        IN  \A o \in stats.obs :
                (stats.obs = {o} /\ o[1] = inverse /\ o[2] # Zero
                                  /\ inverse \notin stats.failed) =>
                    /\ result.kind = (IF stats.op = "quote" THEN "quote" ELSE "price")
                    /\ Mul(result.rate, o[2]) = One
                    /\ key \in DOMAIN price_cache
                    /\ price_cache[key] = [ts |-> clock, val |-> result.rate]

(* inverse-only price in catalog mode (ETHUSDC listed, USDCETH not) *)
C14_Witness ==
    /\ pc = "idle" /\ stats.op = "quote" /\ stats.from = "USDT" /\ stats.to = "ETH"
    /\ symbols # {}
    /\ stats.obs = {<<<<"ETH", "USDC">>, Rat(2, 1)>>}
    /\ result.rate = Rat(1, 2)
    /\ price_cache[<<"USDC", "ETH">>].val = Rat(1, 2)

(* inverse-only price in fallback mode (the direct request failed) *)
C14_WitnessFallback ==
    /\ pc = "idle" /\ stats.op = "get_price" /\ stats.from = "USDT" /\ stats.to = "ETH"
    /\ symbols = {}
    /\ <<"USDT", "ETH">> \in stats.failed
    /\ stats.obs = {<<<<"ETH", "USDT">>, Rat(2, 1)>>}
    /\ result.rate = Rat(1, 2)

(* C15: the rate of every bridged quote is the product of the directional *)
(* rates of the hops of the path it reports.                              *)
C15_BridgedRateIsProduct ==
    (QuoteDone /\ result.kind = "quote" /\ Len(result.path) > 2)
        => result.rate \in PathRates(result.path)

C15_Witness ==
    /\ QuoteDone /\ result.kind = "quote"
    /\ result.path = <<<<"PLN">>, <<"EUR">>, <<"USDC">>, <<"ETH">>>>
    /\ stats.obs = {<<<<"EUR", "PLN">>, Rat(5, 1)>>, <<<<"USDC", "EUR">>, Rat(2, 1)>>,
                     <<<<"USDC", "ETH">>, Rat(2, 1)>>}
    /\ result.rate = Rat(1, 5)

(* C16: _norm is idempotent on every ticker a caller passes, in any       *)
(* letter case, USDT and USDC included.                                   *)
C16_NormIdempotent ==
    \A x \in {stats.from, stats.to} \ {""} : Norm(Norm(x)) = Norm(x)

C16_Witness ==
    /\ QuoteDone /\ stats.from = "usdt" /\ stats.to = "Usdc"
    /\ Norm(stats.from) = "USDC" /\ Norm(Norm(stats.from)) = "USDC"
    /\ result.path = <<<<"USDT", "USDC">>, <<"USDC">>>>

(* C17: get_price never raises: whatever the catalog and ticker endpoints *)
(* answer, it returns a rate or None, and None when it had no valid cache *)
(* entry and every ticker request it made failed.                         *)
C17_GetPriceTotal ==
    [][GetPriceStep =>
         LET key == PriceKey(stats')
         IN  /\ pc' = "idle"
             /\ result'.kind = "price"
             /\ result'.rate = None \/ result'.rate \in Int \X (Nat \ {0})
             /\ (/\ key[1] # key[2]
                 /\ ~FreshIn(price_cache, key, clock')
                 /\ \A n \in TickerReqs(reqs') : ~reqs'[n].ok)
                    => result'.rate = None]_vars

C17_Witness ==
    /\ pc = "idle" /\ stats.op = "get_price"
    /\ FailedCatalogReq
    /\ Cardinality(stats.failed) = 2
    /\ result = PriceResult(None)

(* C18: with a non-empty catalog a ticker is requested only for a symbol  *)
(* the catalog lists, and get_price returns None without any ticker       *)
(* request when it lists neither base+quote nor quote+base; with an empty *)
(* catalog the direct symbol is attempted and, if it gives no price, the  *)
(* inverse as well.                                                       *)
C18_CatalogGatesTickers ==
    [][/\ symbols' # {} => \A n \in TickerReqs(reqs') : reqs'[n].sym \in symbols'
       /\ GetPriceStep =>
             LET key == PriceKey(stats')
                 inverse == <<key[2], key[1]>>
                 tickers == SelectSeq(reqs', LAMBDA r : r.kind = "ticker")
                 miss == key[1] # key[2] /\ ~FreshIn(price_cache, key, clock')
             IN  /\ (symbols' # {} /\ miss /\ key \notin symbols' /\ inverse \notin symbols')
                        => (stats'.legs = 0 /\ result'.rate = None)
                 /\ (symbols' = {} /\ miss) =>
                        /\ tickers[1].sym = key
                        /\ IF tickers[1].ok
                           THEN Len(tickers) = 1
                           ELSE Len(tickers) = 2 /\ tickers[2].sym = inverse]_vars

C18_Witness ==
    /\ pc = "idle" /\ stats.op = "get_price"
    /\ stats.from = "USDT" /\ stats.to = "USDC"
    /\ symbols # {} /\ stats.legs = 0 /\ stats.catalog = 1
    /\ result = PriceResult(None)

(* C19: the call the workflow makes, rates.quote(from_asset, to_asset, fee_pct=fee), is
   accepted by BinanceRates.quote and ends in a Quote or in a typed routing failure,
   as it does for the manual backend *)
C19_LiveRouterAcceptsCall ==
    \A n \in 1..Len(quote_calls) : quote_calls[n].outcome.kind \in {"quote", "error"}

(* the quote() invocations made for the order with this id *)
QuotesFor(id) == {n \in 1..Len(quote_calls) : quote_calls[n].order = id}
(* a step that adds an order is one on_fee in S_FEE making one call of quote() *)
OrderFromOneQuote ==
    Len(orders') # Len(orders) =>
        /\ state = "S_FEE"
        /\ Len(orders') = Len(orders) + 1
        /\ Len(quote_calls') = Len(quote_calls) + 1
        /\ quote_calls'[Len(quote_calls')].handler = "on_fee"
        /\ quote_calls'[Len(quote_calls')].order = Len(orders')
(* quote() is called by on_fee only: once per step, and only from S_FEE *)
QuoteOnlyAtFee ==
    quote_calls' # quote_calls =>
        /\ state = "S_FEE"
        /\ Len(quote_calls') = Len(quote_calls) + 1
        /\ SubSeq(quote_calls', 1, Len(quote_calls)) = quote_calls

(* C20, as stated: for every order quote() was invoked exactly once, at on_fee, and the
   order record stores that quote's rate, its path and the fee_pct *)
C20_OrderStoresRatePathFee ==
    \A id \in 1..Len(orders) :
        /\ Cardinality(QuotesFor(id)) = 1
        /\ \A n \in QuotesFor(id) :
               /\ quote_calls[n].handler = "on_fee"
               /\ orders[id]["rate"] = quote_calls[n].outcome.rate
               /\ orders[id]["fee_pct"] = quote_calls[n].fee_pct
               /\ "path" \in DOMAIN orders[id]
               /\ orders[id]["path"] = quote_calls[n].outcome.path

(* C20, amended: for every order quote() was invoked exactly once, at on_fee, and the
   order record stores that quote's rate and the fee_pct, through every later update of
   the order; the record has no field for the path *)
C20_OrderStoresRateAndFee ==
    /\ [](\A id \in 1..Len(orders) :
            /\ Cardinality(QuotesFor(id)) = 1
            /\ \A n \in QuotesFor(id) :
                   /\ quote_calls[n].handler = "on_fee"
                   /\ quote_calls[n].outcome.kind = "quote"
                   /\ orders[id]["rate"] = quote_calls[n].outcome.rate
                   /\ orders[id]["fee_pct"] = quote_calls[n].fee_pct
                   /\ "path" \notin DOMAIN orders[id])
    /\ [][OrderFromOneQuote /\ QuoteOnlyAtFee]_vars

(* two orders of different fee tiers, the first one updated after its creation *)
C20_Witness ==
    /\ Len(orders) = 2
    /\ orders[1]["fee_pct"] # orders[2]["fee_pct"]
    /\ orders[1]["status"] = "awaiting_payout_details"

(* the step is an on_fee whose call of quote() raised *)
QuoteFailedStep ==
    /\ Len(quote_calls') = Len(quote_calls) + 1
    /\ quote_calls'[Len(quote_calls')].outcome.kind # "quote"

(* C21: when quote() fails during on_fee, the user is sent the generic failure message
   and nothing else, no order record is created, no admin is notified of a new order,
   and the conversation ends *)
C21_QuoteFailureAborts ==
    [][QuoteFailedStep =>
          /\ state = "S_FEE"
          /\ outbox' = <<Msg(User.id, "unknown", <<>>)>>
          /\ orders' = orders
          /\ state' = END]_vars

(* a quote() failure in a conversation that follows a created order *)
C21_Witness ==
    /\ Len(orders) = 1
    /\ Len(quote_calls) = 2
    /\ quote_calls[2].outcome.kind = "error"
    /\ state = END

(* C22: no message sent to the end user carries the path of a quote; the path goes to
   administrators only *)
C22_PathHiddenFromUser ==
    \A n \in 1..Len(outbox) : outbox[n].to = User.id => outbox[n].path = <<>>

(* C23: select_tier(fee) returns the tier equal to the fee when there is one, otherwise
   a tier at minimum absolute distance from the fee, and of two equidistant tiers the
   lower one; with tiers {1.0, 1.5, 2.0, 2.5} the fee 1.2 selects 1.0 *)
C23_NearestTierLowerOnTie ==
    manual_tier # None =>
        /\ manual_tier \in manual_tiers
        /\ (manual_fee \in manual_tiers => manual_tier = manual_fee)
        /\ \A u \in manual_tiers :
               /\ ~Less(Dist(u, manual_fee), Dist(manual_tier, manual_fee))
               /\ (Dist(u, manual_fee) = Dist(manual_tier, manual_fee)
                      => ~Less(u, manual_tier))
        /\ (manual_tiers = ManualTiers /\ manual_fee = Rat(6, 5) => manual_tier = One)

(* the fee 1.25 between the tiers 1.0 and 1.5 has selected 1.0 *)
C23_Witness ==
    /\ manual_fee = Rat(5, 4)
    /\ {One, Rat(3, 2)} \subseteq manual_tiers
    /\ manual_tier = One

(* C24: after an admin issues /admin_complete <order_id> <transfer_id> for an existing
   order, the status of that order is done, the transfer id is stored on its record
   and the user of the order has been sent the completion notice *)
C24_AdminCompleteMarksDone ==
    [][\A args \in AdminArgs :
          (/\ AdminComplete(Admin, args)
           /\ Len(args) >= 2
           /\ args[1] \in DOMAIN IntOf
           /\ IntOf[args[1]] \in DOMAIN orders)
          => /\ orders'[IntOf[args[1]]]["status"] = "done"
             /\ "admin_transfer_id" \in DOMAIN orders'[IntOf[args[1]]]
             /\ \E n \in 1..Len(outbox') :
                    outbox'[n] = Msg(orders[IntOf[args[1]]]["user_id"], "completed", <<>>)]_vars

(* C25: when on_payout_details receives non-empty text in S_PAYOUT for a session that
   has an order id, payout_type and payout_details are saved on the order record, the
   status of the order becomes processing and the conversation ends *)
C25_PayoutDetailsSaved ==
    [][\A txt \in PayoutTexts :
          (/\ OnPayoutDetails(txt)
           /\ txt # ""
           /\ "order_id" \in DOMAIN user_data)
          => /\ orders'[user_data["order_id"]]["status"] = "processing"
             /\ {"payout_type", "payout_details"}
                    \subseteq DOMAIN orders'[user_data["order_id"]]
             /\ state' = END]_vars

(* C26: the status of every order record is one of created, awaiting_proof, processing,
   done, cancelled *)
C26_StatusVocabulary ==
    \A id \in 1..Len(orders) :
        orders[id]["status"] \in {"created", "awaiting_proof", "processing", "done",
                                  "cancelled"}

(* C27: get_price consults the price cache before it refreshes the catalog: a call
   that finds a valid entry for (base, quote) returns it without any network request,
   a catalog request included, in catalog mode and in fallback mode *)
C27_CacheHitIssuesNoRequest ==
    [][(GetPriceStep /\ FreshIn(price_cache, PriceKey(stats'), clock'))
          => /\ result'.rate = price_cache[PriceKey(stats')].val
             /\ reqs' = <<>>]_vars

(* the ticker requests of a step, in the order they were issued *)
TickersOf(log) == SelectSeq(log, LAMBDA r : r.kind = "ticker")

(* C28: with an empty catalog get_price requests the direct symbol base+quote first
   and the inverse symbol quote+base only if the direct request gave no price; the
   inverse is never requested before or without the direct one, and a direct price is
   returned without an inverse request *)
C28_FallbackDirectThenInverse ==
    [][symbols' = {} =>
          LET tickers == TickersOf(reqs')
          IN  /\ Len(tickers) <= 2
              /\ Len(tickers) = 2 =>
                     /\ ~tickers[1].ok
                     /\ tickers[2].sym = <<tickers[1].sym[2], tickers[1].sym[1]>>
              /\ GetPriceStep =>
                     LET key == PriceKey(stats')
                     IN  /\ \A n \in 1..Len(tickers) :
                                tickers[n].sym = <<key[2], key[1]>> =>
                                    n = 2 /\ tickers[1].sym = key
                         /\ (Len(tickers) >= 1 /\ tickers[1].ok) =>
                                /\ Len(tickers) = 1
                                /\ tickers[1].sym = key
                                /\ <<key, result'.rate>> \in stats'.obs]_vars

(* a direct price of zero came back in fallback mode and was returned as it is *)
C28_Witness ==
    /\ pc = "idle" /\ stats.op = "get_price"
    /\ symbols = {}
    /\ Len(TickersOf(reqs)) = 1
    /\ reqs[Len(reqs)].ok
    /\ result.rate = Zero

(* every cache entry holds a rate, under a key of two different tickers *)
CacheHoldsRates ==
    \A key \in DOMAIN price_cache : key[1] # key[2] /\ price_cache[key].val # None
(* a get_price that returns absent leaves the cache as it is *)
AbsentLeavesCache == (GetPriceStep /\ result'.rate = None) => price_cache' = price_cache
(* the step is a get_price of the pair the get_price before it found absent *)
AbsentAgainStep ==
    /\ GetPriceStep
    /\ pc = "idle" /\ stats.op = "get_price" /\ result.rate = None
    /\ PriceKey(stats') = PriceKey(stats)

(* C29, as stated: no negative caching: a get_price that returns absent leaves the
   cache unchanged, every entry holds a non-absent rate under a key with base # quote,
   and a later call for a pair found absent always goes upstream again *)
C29_AbsentAlwaysGoesUpstream ==
    /\ []CacheHoldsRates
    /\ [][AbsentLeavesCache /\ (AbsentAgainStep => reqs' # <<>>)]_vars

(* C29, amended: no negative caching: a get_price that returns absent leaves the cache
   unchanged and every entry holds a non-absent rate under a key with base # quote; a
   later call for a pair found absent is not answered from the cache: it requests a
   ticker when the catalog is empty or lists the direct or the inverse symbol, and it
   returns absent without any ticker request otherwise *)
C29_NoNegativeCaching ==
    /\ []CacheHoldsRates
    /\ [][/\ AbsentLeavesCache
           /\ AbsentAgainStep =>
                 LET key == PriceKey(stats')
                     listed == {key, <<key[2], key[1]>>} \cap symbols' # {}
                 IN  IF symbols' = {} \/ listed
                     THEN TickersOf(reqs') # <<>>
                     ELSE TickersOf(reqs') = <<>> /\ result'.rate = None]_vars

(* a pair found absent is asked for again and now has a price, which is cached *)
C29_Witness ==
    /\ pc = "idle" /\ stats.op = "get_price"
    /\ calls = 2
    /\ stats.failed # {}
    /\ earlier = NoEarlier
    /\ result.rate # None
    /\ PriceKey(stats) \in DOMAIN price_cache
    /\ catalog_fetched_at # <<>>
    /\ Len(TickersOf(reqs)) = 2

(* a step in which the user, who is no administrator, invokes an admin handler *)
NonAdminCommand ==
    \/ AdminOrders(User.id)
    \/ \E args \in AdminArgs : AdminComplete(User.id, args)
    \/ \E args \in AdminArgs : AdminReceiptCmd(User.id, args)
    \/ \E file \in ReceiptFiles : OnAdminReceiptFile(User.id, file)

(* C30: /admin_orders, /admin_complete, /admin_receipt and the receipt-file handler,
   invoked by a user whose id is not in ADMIN_IDS, change no order record, set no
   pending-receipt marker and send nothing to any other user *)
C30_AdminCommandsAuthorised ==
    [][((\A n \in 1..Len(AdminIds) : AdminIds[n] # User.id) /\ NonAdminCommand) =>
          /\ orders' = orders
          /\ Awaiting \notin DOMAIN user_data'
          /\ Awaiting \notin DOMAIN admin_data' \ DOMAIN admin_data
          /\ \A n \in 1..Len(outbox') : outbox'[n].to = User.id]_vars

(* the user was refused an admin command while an order of theirs is open *)
C30_Witness ==
    /\ Len(orders) = 1
    /\ orders[1]["status"] = "awaiting_proof"
    /\ outbox = <<Msg(User.id, "not_admin", <<>>)>>

(* the step is a run of on_fee *)
OnFeeStep == \E code \in FeeTexts : OnFee(code)
(* the step is on_amount receiving a text that is no number, or a number that is not
   strictly positive *)
BadAmountStep ==
    \E txt \in AmountTexts : OnAmount(txt) /\ ~Positive(ParseFloat(txt))

(* C31: an order is created only by on_fee in state S_FEE; on_fee runs only when
   direction, from, to and a strictly positive amount_from are in the session, also
   after restarts by /start; an invalid or non-positive amount keeps the conversation
   in S_AMOUNT and stores no amount *)
C31_FeeStepHasValidSession ==
    [][/\ Len(orders') # Len(orders) => (OnFeeStep /\ state = "S_FEE")
       /\ OnFeeStep =>
              /\ {"direction", "from", "to", "amount_from"} \subseteq DOMAIN user_data
              /\ Positive(user_data["amount_from"])
       /\ BadAmountStep =>
              /\ state' = "S_AMOUNT"
              /\ "amount_from" \notin DOMAIN user_data']_vars

(* the step ends the conversation of a session that has an order, or restarts it *)
LeavesOrderStep ==
    /\ state # END
    /\ "order_id" \in DOMAIN user_data
    /\ state' = END \/ starts' = starts + 1

(* C32: an order created in a conversation has left the status awaiting_proof when the
   conversation ends: cancel in S_CONFIRM sets the status of exactly that order to
   cancelled and ends the conversation, and neither the cancel fallback nor a /start
   re-entry leaves the order in awaiting_proof *)
C32_EndedConversationLeavesAwaitingProof ==
    [][/\ (state = "S_CONFIRM" /\ OnConfirmButtons /\ state' = END) =>
              /\ "order_id" \in DOMAIN user_data
              /\ orders'[user_data["order_id"]]["status"] = "cancelled"
              /\ \A id \in 1..Len(orders) :
                     id # user_data["order_id"] => orders'[id] = orders[id]
       /\ LeavesOrderStep =>
              orders'[user_data["order_id"]]["status"] # "awaiting_proof"]_vars
====
